---- MODULE Spec2Model ----
(***************************************************************************)
(* Model of ASMPatchHandler (src/patches/asmpatchhandler.py): the NSO      *)
(* container patcher patch_asm, the diff applier write_patch, and the      *)
(* two-pipeline driver patch_all_asm with patch_startflags.                *)
(***************************************************************************)
EXTENDS Integers, Sequences, FiniteSets, TLC

(***************************************************************************)
(* Bounds of the model.                                                    *)
(***************************************************************************)
\* decompressed size of every segment of a model image
SegLen == 3
\* file position of the first payload byte of a model image
BodyBase == 4
\* value of the data header's "other" field in a model image
InOther == 5

Segs == {"text", "rodata", "data"}

(***************************************************************************)
(* Byte-sequence helpers.                                                  *)
(***************************************************************************)
Max(a, b) == IF a > b THEN a ELSE b
Min(a, b) == IF a < b THEN a ELSE b

\* struct.pack("<I", n)
U32LE(n) ==
    << n % 256, (n \div 256) % 256, (n \div 65536) % 256, (n \div 16777216) % 256 >>

\* number of leading elements of s that equal s[1] (s non-empty)
LeadRun(s) ==
    CHOOSE n \in 1..Len(s) :
        /\ \A i \in 1..n : s[i] = s[1]
        /\ (n < Len(s) => s[n + 1] # s[1])

(***************************************************************************)
(* The block codec.  lz4.block is a third-party library; it is modelled    *)
(* by a run-length block format (count, byte)* with the 4-byte size        *)
(* prefix that lz4.block.compress prepends.                                *)
(***************************************************************************)
RECURSIVE BlockEncode(_)
BlockEncode(s) ==
    IF s = <<>> THEN <<>>
    ELSE LET n == LeadRun(s)
         IN  <<n, s[1]>> \o BlockEncode(SubSeq(s, n + 1, Len(s)))

\* a valid, non-minimal encoding: one (1, byte) pair per byte
RECURSIVE BlockEncodeLoose(_)
BlockEncodeLoose(s) ==
    IF s = <<>> THEN <<>>
    ELSE <<1, s[1]>> \o BlockEncodeLoose(Tail(s))

BlockWellFormed(c) ==
    /\ Len(c) % 2 = 0
    /\ \A i \in 1..Len(c) : (i % 2 = 1) => c[i] >= 1

RECURSIVE BlockDecode(_)
BlockDecode(c) ==
    IF Len(c) < 2 THEN <<>>
    ELSE [i \in 1..c[1] |-> c[2]] \o BlockDecode(SubSeq(c, 3, Len(c)))

\* lz4.block.compress(data): size prefix followed by the block
Lz4Compress(data) == U32LE(Len(data)) \o BlockEncode(data)

\* lz4.block.decompress(data, uncompressed_size=size); ok = FALSE models the
\* library's error on a malformed block or on output larger than size
Lz4Decompress(data, size) ==
    IF BlockWellFormed(data) /\ Len(BlockDecode(data)) <= size
    THEN [ok |-> TRUE, data |-> BlockDecode(data)]
    ELSE [ok |-> FALSE, data |-> <<>>]

\* ASMPatchHandler.compress: trims the 4-byte prefix off the start
compress(data) ==
    LET c == Lz4Compress(data) IN SubSeq(c, 5, Len(c))

\* ASMPatchHandler.decompress
decompress(data, size) == Lz4Decompress(data, size)

(***************************************************************************)
(* sslib.fs_helpers.write_bytes on an io.BytesIO: seek(offset) then        *)
(* write(raw_bytes).  A negative offset makes seek raise; a write past     *)
(* the end zero-fills the gap and grows the stream.                        *)
(***************************************************************************)
write_bytes_ok(offset) == offset >= 0

write_bytes(buf, offset, raw) ==
    LET newLen == IF Len(raw) = 0 THEN Len(buf) ELSE Max(Len(buf), offset + Len(raw))
    IN  [i \in 1..newLen |->
            IF i > offset /\ i <= offset + Len(raw) THEN raw[i - offset]
            ELSE IF i <= Len(buf) THEN buf[i]
            ELSE 0]

\* BytesIO.read(n) from position pos (0-based): at most n bytes, fewer at EOF
read_at(buf, pos, n) ==
    SubSeq(buf, pos + 1, Min(Len(buf), pos + n))

\* BytesIO.read() from position pos to the end
read_rest(buf, pos) == SubSeq(buf, pos + 1, Len(buf))

(***************************************************************************)
(* Container model: the three SegmentHeader records, the compressed-size   *)
(* table, the flags byte, and the payload bytes.  body[i] is the byte at   *)
(* file position BodyBase + i - 1.                                         *)
(***************************************************************************)
Header(off, dsize, other) ==
    [file_offset |-> off, decompressed_size |-> dsize, other |-> other]

\* ASMPatchHandler.get_segments: parse the three headers of the stream
get_segments(image) == image.hdr

\* the decompressed contents a model segment can have
SegData ==
    { [i \in 1..SegLen |-> 0],
      [i \in 1..SegLen |-> IF i = SegLen THEN 1 ELSE 0] }

\* the compressed forms an input image can hold for contents d
Encodings(d) == { BlockEncode(d), BlockEncodeLoose(d) }

\* flags bytes of input images: already patched (0x07), all compression and
\* hash bits set (0x3F), and one with a bit above the hash bits (0x47)
InFlags == {7, 63, 71}

\* a well-formed input image: contiguous payloads in ascending file order
MakeImage(ct, cr, cd, dt, dr, dd, fl) ==
    [ flags |-> fl,
      csize |-> [s \in Segs |-> IF s = "text" THEN Len(ct)
                                ELSE IF s = "rodata" THEN Len(cr) ELSE Len(cd)],
      hdr   |-> [s \in Segs |->
                    IF s = "text" THEN Header(BodyBase, dt, 0)
                    ELSE IF s = "rodata" THEN Header(BodyBase + Len(ct), dr, 0)
                    ELSE Header(BodyBase + Len(ct) + Len(cr), dd, InOther)],
      body  |-> ct \o cr \o cd ]

InputImages ==
    { MakeImage(ct, cr, cd, SegLen, SegLen, SegLen, fl) :
        ct \in UNION { Encodings(d) : d \in SegData },
        cr \in UNION { Encodings(d) : d \in SegData },
        cd \in UNION { Encodings(d) : d \in SegData },
        fl \in InFlags }

\* an image whose text header records too small a decompressed size
CorruptImages ==
    { MakeImage(BlockEncode(d), BlockEncode(d), BlockEncode(d),
                SegLen - 1, SegLen, SegLen, 7) : d \in SegData }

(***************************************************************************)
(* NsoOffsets: the segment boundaries of the relative address space.       *)
(***************************************************************************)
OffsetTables ==
    { [text |-> t, rodata |-> t + g, data |-> t + g + SegLen] :
        t \in 0..1, g \in SegLen..(SegLen + 1) }

(***************************************************************************)
(* Diff sources.  A source is a yaml mapping; an entry is keyed by an      *)
(* integer address (isInt) or by a condition name with a nested mapping.   *)
(* File ids are ordered as the file names are.                             *)
(***************************************************************************)
W(a, d) == [isInt |-> TRUE, addr |-> a, data |-> d, cond |-> "", sub |-> <<>>]
G(c, m) == [isInt |-> FALSE, addr |-> 0, data |-> <<>>, cond |-> c, sub |-> m]
S(a, d) == [addr |-> a, data |-> d]

DiffFiles ==
    << [ok |-> TRUE,  entries |-> << W(1, <<7>>), W(SegLen + 1, <<8, 8>>) >>],
       [ok |-> TRUE,  entries |-> << W(1, <<9, 9>>), W(2 * SegLen + 2, <<9>>) >>],
       [ok |-> TRUE,  entries |-> << G("cond_a", << S(2, <<6>>), S(2 * SegLen + 1, <<6, 6>>) >>),
                                     W(2, <<3>>) >>],
       [ok |-> TRUE,  entries |-> << W(0, <<5>>) >>],
       [ok |-> FALSE, entries |-> <<>>],
       [ok |-> TRUE,  entries |-> << G("cond_x", << S(1, <<4>>) >>) >>] >>

FileIds == 1..Len(DiffFiles)

\* the generated startflags-diff.yaml, the only file of the temporary directory
StartflagsFile == Len(DiffFiles) + 1

\* the directories patch_asm is run on
PrimaryDirs == { d \in SUBSET FileIds : Cardinality(d) \in 1..2 }
\* extra_diffs_path: None, or a directory
NoDir == [given |-> FALSE, files |-> {}]
Dir(files) == [given |-> TRUE, files |-> files]
ExtraDirs == { NoDir, Dir({2}) }
TempDirPath == Dir({StartflagsFile})

\* all orders in which a directory listing can return the files of d
Listings(d) ==
    { q \in [1..Cardinality(d) -> d] : \A i, j \in DOMAIN q : i # j => q[i] # q[j] }

(***************************************************************************)
(* Condition Gate: ConditionalPatchHandler.evaluate_onlyif.  A known       *)
(* condition evaluates to a boolean, an unknown one is rejected.           *)
(***************************************************************************)
Gates == [ {"cond_a"} -> BOOLEAN ]

gate_known(g, c) == c \in DOMAIN g
evaluate_onlyif(g, c) == g[c]

(***************************************************************************)
(* State of one patch_asm invocation.                                      *)
(***************************************************************************)
VARIABLES
    pc,                    \* position of the invocation in patch_asm
    arg,                   \* its arguments: input image, directories, offsets
    gate,                  \* the configuration snapshot of the Condition Gate
    asm_patch_diff_paths,  \* the enumerated diff sources
    nso,                   \* the BytesIO holding the image
    hdr,                   \* text_header, rodata_header, data_header
    compressed,            \* compressed_text, compressed_rodata, compressed_data
    segment,               \* text_segment, rodata_segment, data_segment
    fileIdx,               \* index of the diff source being applied
    binary_diffs,          \* its loaded entries (empty before yaml_load)
    entryIdx,              \* index of the next top-level entry
    new_compressed,        \* new_compressed_text/_rodata/_data
    output,                \* the file at output_path
    queries,               \* history: conditions the gate was asked, in order
    writeLog               \* history: write_patch calls made, in order

asmVars ==
    << pc, arg, gate, asm_patch_diff_paths, nso, hdr, compressed, segment,
       fileIdx, binary_diffs, entryIdx, new_compressed, output, queries, writeLog >>

(***************************************************************************)
(* State of patch_all_asm around the two invocations.                      *)
(***************************************************************************)
VARIABLES
    apc,            \* position in patch_all_asm ("Direct": patch_asm called alone)
    disk,           \* the two input images and the two diff directories
    world,          \* world.starting_item_pool, in iteration order
    temp_dir,       \* the temporary directory: whether it exists, its files
    temp_file,      \* contents of startflags-diff.yaml
    diffWritten,    \* history: yaml_write of the start-flags diff happened
    capacityError   \* history: the capacity assertion failed

allVars == << apc, disk, world, temp_dir, temp_file, diffWritten, capacityError >>

OutPaths == {"main", "sub"}

NoImage == [flags |-> 0, csize |-> [s \in Segs |-> 0],
            hdr |-> [s \in Segs |-> Header(0, 0, 0)], body |-> <<>>]
NoBufs == [s \in Segs |-> <<>>]
NoFile == [written |-> FALSE, image |-> NoImage]
File(image) == [written |-> TRUE, image |-> image]
NoDiff == [ok |-> TRUE, entries |-> <<>>]

\* yaml_load of a diff file
yaml_load(f) == IF f = StartflagsFile THEN temp_file ELSE DiffFiles[f]

\* Path.glob("*-diff.yaml"): the files of a directory at the time of the call
DirFiles(d) == IF d = TempDirPath THEN temp_dir.files ELSE d.files

\* patch_asm runs when called directly or from patch_all_asm
Running == apc \in {"Direct", "Main", "Sub"}

\* a call of patch_asm: fresh local state
AsmCall ==
    /\ pc' = "Start"
    /\ asm_patch_diff_paths' = <<>>
    /\ nso' = NoImage
    /\ hdr' = NoImage.hdr
    /\ compressed' = NoBufs
    /\ segment' = NoBufs
    /\ fileIdx' = 1
    /\ binary_diffs' = <<>>
    /\ entryIdx' = 1
    /\ new_compressed' = NoBufs
    /\ queries' = <<>>
    /\ writeLog' = <<>>

\* the local state of patch_asm before its first statement
AsmEntry ==
    /\ pc = "Start"
    /\ asm_patch_diff_paths = <<>>
    /\ nso = NoImage
    /\ hdr = NoImage.hdr
    /\ compressed = NoBufs
    /\ segment = NoBufs
    /\ fileIdx = 1
    /\ binary_diffs = <<>>
    /\ entryIdx = 1
    /\ new_compressed = NoBufs
    /\ queries = <<>>
    /\ writeLog = <<>>

(***************************************************************************)
(* write_patch: classify the address, subtract the boundary, overwrite.    *)
(***************************************************************************)
ClassifyAlt(offsets, relative_offset) ==
    IF relative_offset <= offsets.rodata THEN "text"
    ELSE IF relative_offset <= offsets.data THEN "rodata"
    ELSE "data"

Classify(offsets, relative_offset) ==
    IF relative_offset < offsets.rodata THEN "text"
    ELSE IF relative_offset < offsets.data THEN "rodata"
    ELSE "data"

LocalOffset(offsets, relative_offset) ==
    relative_offset - offsets[Classify(offsets, relative_offset)]

\* returns the raised flag, the three buffers and the call's log record
write_patchAlt(relative_offset, offsets, segs, data) ==
    LET s == Classify(offsets, relative_offset)
        file_offset == LocalOffset(offsets, relative_offset)
        target == IF s = "rodata" THEN "text" ELSE s
    IN  IF write_bytes_ok(file_offset)
        THEN [ok |-> TRUE,
              segs |-> [segs EXCEPT ![target] = write_bytes(segs[target], file_offset, data)],
              log |-> << [seg |-> s, off |-> file_offset, data |-> data] >>]
        ELSE [ok |-> FALSE, segs |-> segs, log |-> <<>>]

write_patch(relative_offset, offsets, segs, data) ==
    LET s == Classify(offsets, relative_offset)
        file_offset == LocalOffset(offsets, relative_offset)
    IN  IF write_bytes_ok(file_offset)
        THEN [ok |-> TRUE,
              segs |-> [segs EXCEPT ![s] = write_bytes(segs[s], file_offset, data)],
              log |-> << [seg |-> s, off |-> file_offset, data |-> data] >>]
        ELSE [ok |-> FALSE, segs |-> segs, log |-> <<>>]

\* the inner loop over a conditional group's nested mapping
write_groupAlt(subs, offsets, segs) ==
    IF subs = <<>> THEN [ok |-> TRUE, segs |-> segs, log |-> <<>>]
    ELSE write_patch(Head(subs).addr, offsets, segs, Head(subs).data)

RECURSIVE write_group(_, _, _)
write_group(subs, offsets, segs) ==
    IF subs = <<>> THEN [ok |-> TRUE, segs |-> segs, log |-> <<>>]
    ELSE LET r == write_patch(Head(subs).addr, offsets, segs, Head(subs).data)
         IN  IF ~r.ok THEN r
             ELSE LET rest == write_group(Tail(subs), offsets, r.segs)
                  IN  [ok |-> rest.ok, segs |-> rest.segs, log |-> r.log \o rest.log]

(***************************************************************************)
(* patch_asm, one action per step of the pipeline.                         *)
(***************************************************************************)
\* lines 58-62: glob the primary directory, then the extra one
GlobDiffs ==
    /\ Running
    /\ pc = "Start"
    /\ UNCHANGED allVars
    /\ \E p \in Listings(DirFiles(arg.diffs)), x \in (IF arg.extra.given THEN Listings(DirFiles(arg.extra)) ELSE { <<>> }) :
           asm_patch_diff_paths' = p \o x
    /\ pc' = "Globbed"
    /\ UNCHANGED << arg, gate, nso, hdr, compressed, segment, fileIdx, binary_diffs,
                    entryIdx, new_compressed, output, queries, writeLog >>

\* lines 64-66: read the image and parse the headers
LoadAlt ==
    /\ Running
    /\ pc = "Globbed"
    /\ UNCHANGED allVars
    /\ nso' = arg.image
    /\ hdr' = get_segments(arg.image)
    /\ output' = [output EXCEPT ![arg.out] = File(arg.image)]
    /\ pc' = "Loaded"
    /\ UNCHANGED << arg, gate, asm_patch_diff_paths, compressed, segment, fileIdx,
                    binary_diffs, entryIdx, new_compressed, queries, writeLog >>

Load ==
    /\ Running
    /\ pc = "Globbed"
    /\ UNCHANGED allVars
    /\ nso' = arg.image
    /\ hdr' = get_segments(arg.image)
    /\ pc' = "Loaded"
    /\ UNCHANGED << arg, gate, asm_patch_diff_paths, compressed, segment, fileIdx,
                    binary_diffs, entryIdx, new_compressed, output, queries, writeLog >>

\* lines 68-86: slice the three payloads and decompress them
Decompress ==
    /\ Running
    /\ pc = "Loaded"
    /\ UNCHANGED allVars
    /\ LET tOff == hdr["text"].file_offset - BodyBase
           tLen == hdr["rodata"].file_offset - hdr["text"].file_offset
           rLen == hdr["data"].file_offset - hdr["rodata"].file_offset
           ct == read_at(nso.body, tOff, tLen)
           cr == read_at(nso.body, tOff + Len(ct), rLen)
           cd == read_rest(nso.body, tOff + Len(ct) + Len(cr))
           c  == [s \in Segs |-> IF s = "text" THEN ct ELSE IF s = "rodata" THEN cr ELSE cd]
           d  == [s \in Segs |-> decompress(c[s], hdr[s].decompressed_size)]
       IN  /\ compressed' = c
           /\ IF \A s \in Segs : d[s].ok
              THEN /\ segment' = [s \in Segs |-> d[s].data]
                   /\ pc' = "SegmentsDecompressed"
              ELSE /\ segment' = segment
                   /\ pc' = "Failed"
    /\ UNCHANGED << arg, gate, asm_patch_diff_paths, nso, hdr, fileIdx, binary_diffs,
                    entryIdx, new_compressed, output, queries, writeLog >>

\* line 89: yaml_load of the next diff source
LoadDiff ==
    /\ Running
    /\ pc = "SegmentsDecompressed"
    /\ UNCHANGED allVars
    /\ fileIdx <= Len(asm_patch_diff_paths)
    /\ binary_diffs = <<>>
    /\ LET f == yaml_load(asm_patch_diff_paths[fileIdx])
       IN  IF ~f.ok
           THEN /\ pc' = "Failed"
                /\ UNCHANGED << fileIdx, binary_diffs, entryIdx >>
           ELSE IF f.entries = <<>>
           THEN /\ fileIdx' = fileIdx + 1
                /\ UNCHANGED << pc, binary_diffs, entryIdx >>
           ELSE /\ binary_diffs' = f.entries
                /\ entryIdx' = 1
                /\ UNCHANGED << pc, fileIdx >>
    /\ UNCHANGED << arg, gate, asm_patch_diff_paths, nso, hdr, compressed, segment,
                    new_compressed, output, queries, writeLog >>

\* the loop bookkeeping after a top-level entry has been handled
Advance ==
    IF entryIdx = Len(binary_diffs)
    THEN /\ fileIdx' = fileIdx + 1
         /\ binary_diffs' = <<>>
         /\ entryIdx' = 1
    ELSE /\ entryIdx' = entryIdx + 1
         /\ UNCHANGED << fileIdx, binary_diffs >>

\* lines 92-112: one top-level entry of the current diff source
ApplyEntry ==
    /\ Running
    /\ pc = "SegmentsDecompressed"
    /\ UNCHANGED allVars
    /\ binary_diffs # <<>>
    /\ LET e == binary_diffs[entryIdx]
       IN  IF ~e.isInt
           THEN IF ~gate_known(gate, e.cond)
                THEN /\ pc' = "Failed"
                     /\ queries' = Append(queries, e.cond)
                     /\ UNCHANGED << segment, writeLog, fileIdx, binary_diffs, entryIdx >>
                ELSE IF evaluate_onlyif(gate, e.cond)
                THEN LET r == write_group(e.sub, arg.offsets, segment)
                     IN  /\ queries' = Append(queries, e.cond)
                         /\ segment' = r.segs
                         /\ writeLog' = writeLog \o r.log
                         /\ IF r.ok
                            THEN pc' = pc /\ Advance
                            ELSE pc' = "Failed"
                                 /\ UNCHANGED << fileIdx, binary_diffs, entryIdx >>
                ELSE /\ queries' = Append(queries, e.cond)
                     /\ Advance
                     /\ UNCHANGED << pc, segment, writeLog >>
           ELSE LET r == write_patch(e.addr, arg.offsets, segment, e.data)
                IN  /\ segment' = r.segs
                    /\ writeLog' = writeLog \o r.log
                    /\ queries' = queries
                    /\ IF r.ok
                       THEN pc' = pc /\ Advance
                       ELSE pc' = "Failed"
                            /\ UNCHANGED << fileIdx, binary_diffs, entryIdx >>
    /\ UNCHANGED << arg, gate, asm_patch_diff_paths, nso, hdr, compressed,
                    new_compressed, output >>

\* the loop over the diff sources is exhausted
DiffsDone ==
    /\ Running
    /\ pc = "SegmentsDecompressed"
    /\ UNCHANGED allVars
    /\ fileIdx > Len(asm_patch_diff_paths)
    /\ pc' = "DiffsApplied"
    /\ UNCHANGED << arg, gate, asm_patch_diff_paths, nso, hdr, compressed, segment,
                    fileIdx, binary_diffs, entryIdx, new_compressed, output, queries,
                    writeLog >>

\* lines 116-118
Recompress ==
    /\ Running
    /\ pc = "DiffsApplied"
    /\ UNCHANGED allVars
    /\ new_compressed' = [s \in Segs |-> compress(segment[s])]
    /\ pc' = "Recompressed"
    /\ UNCHANGED << arg, gate, asm_patch_diff_paths, nso, hdr, compressed, segment,
                    fileIdx, binary_diffs, entryIdx, output, queries, writeLog >>

SizeDiff(s) == Len(new_compressed[s]) - Len(compressed[s])

\* write_u32 of a segment header's file-offset field
SetFileOffset(image, s, v) == [image EXCEPT !.hdr[s].file_offset = v]
\* write_u32 of a segment header's trailing field
SetOther(image, s, v) == [image EXCEPT !.hdr[s].other = v]

\* lines 128-144: text grew
RelocateTextAlt(image, h) ==
    IF SizeDiff("text") > 0
    THEN SetFileOffset(image, "rodata", h["rodata"].file_offset + SizeDiff("text"))
    ELSE image

RelocateText(image, h) ==
    IF SizeDiff("text") > 0
    THEN SetFileOffset(
             SetFileOffset(image, "rodata", h["rodata"].file_offset + SizeDiff("text")),
             "data", h["data"].file_offset + SizeDiff("text"))
    ELSE image

\* the headers in hand after lines 128-144: re-read only when text grew
HeadersAfterTextAlt(image, h) == h

HeadersAfterText(image, h) ==
    IF SizeDiff("text") > 0 THEN get_segments(image) ELSE h

\* lines 146-153: rodata grew
RelocateRodataAlt(image, h) ==
    IF SizeDiff("rodata") # 0
    THEN SetFileOffset(image, "data", h["data"].file_offset + SizeDiff("rodata"))
    ELSE image

RelocateRodata(image, h) ==
    IF SizeDiff("rodata") > 0
    THEN SetFileOffset(image, "data", h["data"].file_offset + SizeDiff("rodata"))
    ELSE image

\* lines 155-162: data grew
RelocateDataAlt(image, h) ==
    IF SizeDiff("data") > 0
    THEN SetFileOffset(image, "data", h["data"].file_offset + SizeDiff("data"))
    ELSE image

RelocateData(image, h) ==
    IF SizeDiff("data") > 0
    THEN SetOther(image, "data", h["data"].other + SizeDiff("data"))
    ELSE image

\* lines 120-165
RelocateHeaders ==
    /\ Running
    /\ pc = "Recompressed"
    /\ UNCHANGED allVars
    /\ LET n1 == RelocateText(nso, hdr)
           h1 == HeadersAfterText(n1, hdr)
           n2 == RelocateRodata(n1, h1)
           n3 == RelocateData(n2, h1)
       IN  /\ nso' = n3
           /\ hdr' = get_segments(n3)
    /\ pc' = "HeadersRelocated"
    /\ UNCHANGED << arg, gate, asm_patch_diff_paths, compressed, segment, fileIdx,
                    binary_diffs, entryIdx, new_compressed, output, queries, writeLog >>

\* lines 167-169: the three payload writes
WritePayloads(image, h) ==
    LET b1 == write_bytes(image.body, h["text"].file_offset - BodyBase, new_compressed["text"])
        b2 == write_bytes(b1, h["rodata"].file_offset - BodyBase, new_compressed["rodata"])
        b3 == write_bytes(b2, h["data"].file_offset - BodyBase, new_compressed["data"])
    IN  [image EXCEPT !.body = b3]

\* lines 172-189: the compressed-size table
WriteSizesAlt(image) ==
    [image EXCEPT !.csize = [s \in Segs |-> Max(image.csize[s], Len(new_compressed[s]))]]

WriteSizes(image) ==
    [image EXCEPT !.csize = [s \in Segs |-> Len(new_compressed[s])]]

\* line 193: write_u8(nso, NSO_FLAGS_OFFSET, 0x7)
WriteFlagsAlt(image) == image

WriteFlags(image) == [image EXCEPT !.flags = 7]

\* lines 167-195
Write ==
    /\ Running
    /\ pc = "HeadersRelocated"
    /\ UNCHANGED allVars
    /\ LET n == WriteFlags(WriteSizes(WritePayloads(nso, hdr)))
       IN  /\ nso' = n
           /\ output' = [output EXCEPT ![arg.out] = File(n)]
    /\ pc' = "Written"
    /\ UNCHANGED << arg, gate, asm_patch_diff_paths, hdr, compressed, segment, fileIdx,
                    binary_diffs, entryIdx, new_compressed, queries, writeLog >>

patch_asm ==
    \/ GlobDiffs
    \/ Load
    \/ Decompress
    \/ LoadDiff
    \/ ApplyEntry
    \/ DiffsDone
    \/ Recompress
    \/ RelocateHeaders
    \/ Write

(***************************************************************************)
(* patch_startflags: the start-flags assembler.                            *)
(***************************************************************************)
\* capacity of the on-target flag buffer (asmconstants.MAX_STARTFLAGS)
MAX_STARTFLAGS == 28
\* size of the counter area that follows it in a model secondary image
CountsArea == 8

\* a flag-section entry: an int, or a one-key mapping condition -> flags
I(f) == [isInt |-> TRUE, flag |-> f, cond |-> "", flags |-> <<>>]
C(c, fs) == [isInt |-> FALSE, flag |-> 0, cond |-> c, flags |-> fs]

\* yaml_load(STARTFLAGS_FILE_PATH)
StartflagsYaml ==
    [ Storyflags   |-> << I(1), C("cond_a", <<2, 3>>) >>,
      Sceneflags   |-> << [scene |-> "Skyloft", flags |-> << I(4) >>] >>,
      Itemflags    |-> << I(5) >>,
      Dungeonflags |-> << [scene |-> "Skyview", flags |-> << I(6), C("cond_a", <<7>>) >>] >> ]

SCENE_NAME_TO_SCENE_INDEX == [Skyloft |-> 2, Skyview |-> 3]

\* a table value: a single flag, a list or a tuple
One(f) == [kind |-> "int", v |-> <<f>>]
List(l) == [kind |-> "list", v |-> l]
Tuple(t) == [kind |-> "tuple", v |-> t]
Absent == [kind |-> "absent", v |-> <<>>]

ITEM_ITEMFLAGS == [Bomb |-> List(<<10, 11>>), Bow |-> One(12), Tri |-> Tuple(<<20, 21>>)]
ITEM_STORYFLAGS == [Sword |-> List(<<30, 31>>), Tri |-> One(40)]
ITEM_COUNTS == [Bomb |-> [counter |-> 1, amount |-> 5, maximum |-> 2]]

ItemNames == {"Bomb", "Bow", "Tri", "Sword"}
MaxCount == 3

\* dict.get(item_name, False)
Get(table, name) == IF name \in DOMAIN table THEN table[name] ELSE Absent

\* truthiness of a looked-up value, as tested by the walrus conditions
Truthy(val) ==
    /\ val.kind # "absent"
    /\ val.v # <<>>
    /\ (val.kind = "int" => val.v[1] # 0)

\* lines 257-275: what one item appends to a flag list; ok = FALSE is the
\* IndexError of indexing a list with item_count >= len
Contribution(val, count) ==
    IF ~Truthy(val) THEN [ok |-> TRUE, flags |-> <<>>]
    ELSE IF val.kind = "list"
    THEN IF count <= Len(val.v)
         THEN [ok |-> TRUE, flags |-> SubSeq(val.v, 1, count)]
         ELSE [ok |-> FALSE, flags |-> <<>>]
    ELSE [ok |-> TRUE, flags |-> val.v]

Ints(fs) == [i \in 1..Len(fs) |-> I(fs[i])]

\* lines 277-280: start_counts[counter] += amount * min(maximum, count)
AddCount(counts, name, count) ==
    IF name \notin DOMAIN ITEM_COUNTS THEN counts
    ELSE LET d == ITEM_COUNTS[name]
             add == d.amount * Min(d.maximum, count)
         IN  IF \E i \in 1..Len(counts) : counts[i].counter = d.counter
             THEN [i \in 1..Len(counts) |->
                      IF counts[i].counter = d.counter
                      THEN [counter |-> d.counter, amount |-> counts[i].amount + add]
                      ELSE counts[i]]
             ELSE Append(counts, [counter |-> d.counter, amount |-> add])

\* lines 254-280: the loop over the starting item pool
RECURSIVE ItemLoop(_, _, _, _)
ItemLoop(pool, itemflags, storyflags, counts) ==
    IF pool = <<>>
    THEN [ok |-> TRUE, itemflags |-> itemflags, storyflags |-> storyflags, counts |-> counts]
    ELSE LET it == Head(pool)
             ci == Contribution(Get(ITEM_ITEMFLAGS, it.name), it.count)
             cs == Contribution(Get(ITEM_STORYFLAGS, it.name), it.count)
         IN  IF ~ci.ok \/ ~cs.ok
             THEN [ok |-> FALSE, itemflags |-> itemflags, storyflags |-> storyflags,
                   counts |-> counts]
             ELSE ItemLoop(Tail(pool), itemflags \o Ints(ci.flags),
                           storyflags \o Ints(cs.flags), AddCount(counts, it.name, it.count))

\* _get_flags: ok = FALSE when the gate rejects a condition
RECURSIVE get_flags(_, _)
get_flags(section, g) ==
    IF section = <<>> THEN [ok |-> TRUE, flags |-> <<>>]
    ELSE LET f == Head(section)
             rest == get_flags(Tail(section), g)
         IN  IF f.isInt
             THEN [ok |-> rest.ok, flags |-> <<f.flag>> \o rest.flags]
             ELSE IF ~gate_known(g, f.cond)
             THEN [ok |-> FALSE, flags |-> <<>>]
             ELSE IF evaluate_onlyif(g, f.cond)
             THEN [ok |-> rest.ok, flags |-> f.flags \o rest.flags]
             ELSE rest

\* struct.pack("<H", v)
U16LE(v) == << v % 256, (v \div 256) % 256 >>

RECURSIVE PackFlags(_)
PackFlags(fs) ==
    IF fs = <<>> THEN <<>> ELSE U16LE(Head(fs)) \o PackFlags(Tail(fs))

\* struct.pack("<BB", scene_index, flag) for every flag of every scene
RECURSIVE PackScenes(_, _)
PackScenes(scenes, g) ==
    IF scenes = <<>> THEN [ok |-> TRUE, bytes |-> <<>>]
    ELSE LET sc == Head(scenes)
             fl == get_flags(sc.flags, g)
             rest == PackScenes(Tail(scenes), g)
             idx == SCENE_NAME_TO_SCENE_INDEX[sc.scene]
             RECURSIVE Pairs(_)
             Pairs(fs) == IF fs = <<>> THEN <<>>
                          ELSE <<idx, Head(fs)>> \o Pairs(Tail(fs))
         IN  [ok |-> fl.ok /\ rest.ok, bytes |-> Pairs(fl.flags) \o rest.bytes]

RECURSIVE PackCounts(_)
PackCounts(counts) ==
    IF counts = <<>> THEN <<>>
    ELSE U16LE(Head(counts).counter) \o U16LE(Head(counts).amount)
             \o PackCounts(Tail(counts))

Sentinel == <<255, 255>>

\* lines 246-321: the two serialized blobs
AssembleAlt(pool, g) ==
    LET loop == ItemLoop(pool, StartflagsYaml.Itemflags, StartflagsYaml.Storyflags, <<>>)
        story == get_flags(loop.storyflags, g)
        scene == PackScenes(StartflagsYaml.Sceneflags, g)
        item == get_flags(loop.itemflags, g)
        dungeon == PackScenes(StartflagsYaml.Dungeonflags, g)
    IN  [ ok |-> loop.ok /\ story.ok /\ scene.ok /\ item.ok /\ dungeon.ok,
          startflags_data |->
              PackFlags(story.flags) \o Sentinel \o PackFlags(item.flags) \o Sentinel
                  \o scene.bytes \o Sentinel \o dungeon.bytes \o Sentinel,
          start_counts_data |-> PackCounts(loop.counts) \o <<255, 255, 255, 255>> ]

Assemble(pool, g) ==
    LET loop == ItemLoop(pool, StartflagsYaml.Itemflags, StartflagsYaml.Storyflags, <<>>)
        story == get_flags(loop.storyflags, g)
        scene == PackScenes(StartflagsYaml.Sceneflags, g)
        item == get_flags(loop.itemflags, g)
        dungeon == PackScenes(StartflagsYaml.Dungeonflags, g)
    IN  [ ok |-> loop.ok /\ story.ok /\ scene.ok /\ item.ok /\ dungeon.ok,
          startflags_data |->
              PackFlags(story.flags) \o Sentinel \o scene.bytes \o Sentinel
                  \o PackFlags(item.flags) \o Sentinel \o dungeon.bytes \o Sentinel,
          start_counts_data |-> PackCounts(loop.counts) \o <<255, 255, 255, 255>> ]

(***************************************************************************)
(* The secondary image and its address space.                              *)
(***************************************************************************)
SUBSDK_NSO_OFFSETS == [text |-> 0, rodata |-> SegLen, data |-> 2 * SegLen]
MAIN_NSO_OFFSETS == [text |-> 0, rodata |-> SegLen + 1, data |-> 2 * SegLen + 1]
SUBSDK_STARTFLAG_OFFSET == SUBSDK_NSO_OFFSETS.data
SUBSDK_START_COUNTS_OFFSET == SUBSDK_NSO_OFFSETS.data + MAX_STARTFLAGS

Zeros(n) == [i \in 1..n |-> 0]

SubImages ==
    { MakeImage(ct, BlockEncode(Zeros(SegLen)), BlockEncode(Zeros(MAX_STARTFLAGS + CountsArea)),
                SegLen, SegLen, MAX_STARTFLAGS + CountsArea, 7) :
        ct \in UNION { Encodings(d) : d \in SegData } }

MainImages ==
    { MakeImage(ct, cr, BlockEncode(Zeros(SegLen)), SegLen, SegLen, SegLen, 7) :
        ct \in UNION { Encodings(d) : d \in SegData }, cr \in { BlockEncode(Zeros(SegLen)) } }

\* world.starting_item_pool: distinct items with their held counts
Pools ==
    { <<>> } \cup
    { << [name |-> n, count |-> c] >> : n \in ItemNames, c \in 1..MaxCount } \cup
    { << [name |-> "Bomb", count |-> c], [name |-> n, count |-> 1] >> :
          c \in 1..2, n \in {"Tri", "Sword"} }

(***************************************************************************)
(* patch_all_asm.                                                          *)
(***************************************************************************)
NoTempDir == [exists |-> FALSE, files |-> {}]

\* TemporaryDirectory.__exit__: remove the directory and what it holds
CleanupAlt(td) == td

Cleanup(td) == NoTempDir

\* lines 213-220: call patch_asm on the main image
CallMain ==
    /\ apc = "Start"
    /\ arg' = [image |-> disk.mainImage, diffs |-> Dir(disk.mainDiffs), extra |-> NoDir,
               offsets |-> MAIN_NSO_OFFSETS, out |-> "main"]
    /\ AsmCall
    /\ apc' = "Main"
    /\ UNCHANGED << gate, output, disk, world, temp_dir, temp_file, diffWritten,
                    capacityError >>

\* the main patch_asm raised: the exception leaves patch_all_asm
MainFailed ==
    /\ apc = "Main"
    /\ pc = "Failed"
    /\ apc' = "Failed"
    /\ UNCHANGED << asmVars, disk, world, temp_dir, temp_file, diffWritten,
                    capacityError >>

\* line 222: the main patch_asm returned; create the temporary directory
MakeTempDir ==
    /\ apc = "Main"
    /\ pc = "Written"
    /\ temp_dir' = [exists |-> TRUE, files |-> {}]
    /\ apc' = "TempDir"
    /\ UNCHANGED << asmVars, disk, world, temp_file, diffWritten, capacityError >>

\* patch_startflags lines 246-343: assemble the blobs and yaml_write them
WriteStartflags ==
    /\ apc = "TempDir"
    /\ LET a == Assemble(world, gate)
       IN  IF a.ok
           THEN /\ temp_file' =
                       [ok |-> TRUE,
                        entries |-> << W(SUBSDK_STARTFLAG_OFFSET, a.startflags_data),
                                       W(SUBSDK_START_COUNTS_OFFSET, a.start_counts_data) >>]
                /\ temp_dir' = [temp_dir EXCEPT !.files = {StartflagsFile}]
                /\ diffWritten' = TRUE
                /\ apc' = "StartflagsWritten"
           ELSE /\ temp_dir' = Cleanup(temp_dir)
                /\ apc' = "Failed"
                /\ UNCHANGED << temp_file, diffWritten >>
    /\ UNCHANGED << asmVars, disk, world, capacityError >>

\* patch_startflags line 349, then lines 232-241: call patch_asm on the
\* secondary image with the temporary directory as extra_diffs_path
CheckCapacity ==
    /\ apc = "StartflagsWritten"
    /\ IF Len(temp_file.entries[1].data) < MAX_STARTFLAGS
       THEN /\ arg' = [image |-> disk.subImage, diffs |-> Dir(disk.subDiffs),
                       extra |-> TempDirPath, offsets |-> SUBSDK_NSO_OFFSETS,
                       out |-> "sub"]
            /\ AsmCall
            /\ apc' = "Sub"
            /\ UNCHANGED << temp_dir, temp_file, capacityError >>
       ELSE /\ capacityError' = TRUE
            /\ temp_dir' = Cleanup(temp_dir)
            /\ temp_file' = temp_file
            /\ apc' = "Failed"
            /\ UNCHANGED asmVars
    /\ UNCHANGED << gate, output, disk, world, diffWritten >>

\* the secondary patch_asm returned: leave the with block
SubReturned ==
    /\ apc = "Sub"
    /\ pc = "Written"
    /\ temp_dir' = Cleanup(temp_dir)
    /\ apc' = "Done"
    /\ UNCHANGED << asmVars, disk, world, temp_file, diffWritten, capacityError >>

\* the secondary patch_asm raised: leave the with block with the exception
SubFailed ==
    /\ apc = "Sub"
    /\ pc = "Failed"
    /\ temp_dir' = Cleanup(temp_dir)
    /\ apc' = "Failed"
    /\ UNCHANGED << asmVars, disk, world, temp_file, diffWritten, capacityError >>

patch_all_asm ==
    \/ CallMain
    \/ MainFailed
    \/ MakeTempDir
    \/ WriteStartflags
    \/ CheckCapacity
    \/ SubReturned
    \/ SubFailed

vars == << asmVars, allVars >>

\* patch_asm called on its own, on any image, directories and offset table
Init ==
    /\ arg \in [ image : InputImages \cup CorruptImages,
                 diffs : { Dir(d) : d \in PrimaryDirs },
                 extra : ExtraDirs,
                 offsets : OffsetTables,
                 out : {"main"} ]
    /\ gate \in Gates
    /\ AsmEntry
    /\ output = [p \in OutPaths |-> NoFile]
    /\ apc = "Direct"
    /\ disk = <<>>
    /\ world = <<>>
    /\ temp_dir = [exists |-> FALSE, files |-> {}]
    /\ temp_file = NoDiff
    /\ diffWritten = FALSE
    /\ capacityError = FALSE

Next == patch_asm

Spec == Init /\ [][Next]_vars

\* patch_all_asm on a world, a configuration and the files on disk
InitAll ==
    /\ apc = "Start"
    /\ disk \in [ mainImage : MainImages \cup { MakeImage(BlockEncode(Zeros(SegLen)), BlockEncode(Zeros(SegLen)), BlockEncode(Zeros(SegLen)), SegLen - 1, SegLen, SegLen, 7) },
                  mainDiffs : { {1}, {1, 3}, {5} },
                  subImage : SubImages,
                  subDiffs : { {2}, {3}, {4, 6} } ]
    /\ world \in Pools
    /\ gate \in Gates
    /\ arg = [image |-> NoImage, diffs |-> NoDir, extra |-> NoDir,
              offsets |-> MAIN_NSO_OFFSETS, out |-> "main"]
    /\ AsmEntry
    /\ pc = "Start"
    /\ output = [p \in OutPaths |-> NoFile]
    /\ temp_dir = NoTempDir
    /\ temp_file = NoDiff
    /\ diffWritten = FALSE
    /\ capacityError = FALSE

NextAll ==
    \/ patch_asm
    \/ patch_all_asm

SpecAll == InitAll /\ [][NextAll]_vars

(***************************************************************************)
(* Vocabulary of the properties.                                           *)
(***************************************************************************)
Out == output[arg.out]
InHdr == arg.image.hdr
OutHdr == Out.image.hdr

\* length of the compressed bytes of s in the input image, from its headers
OldLen(s) ==
    IF s = "text" THEN InHdr["rodata"].file_offset - InHdr["text"].file_offset
    ELSE IF s = "rodata" THEN InHdr["data"].file_offset - InHdr["rodata"].file_offset
    ELSE Len(arg.image.body) - (InHdr["data"].file_offset - BodyBase)

Growth(s) == Len(new_compressed[s]) - OldLen(s)

\* the segment an address belongs to and its segment-local offset
SegOf(T, a) ==
    CHOOSE s \in Segs :
        \/ s = "text" /\ a < T.rodata
        \/ s = "rodata" /\ T.rodata <= a /\ a < T.data
        \/ s = "data" /\ T.data <= a

WriteOf(T, a, d) == [seg |-> SegOf(T, a), off |-> a - T[SegOf(T, a)], data |-> d]

\* the writes a sequence of top-level entries amounts to under the gate
RECURSIVE WritesOf(_)
WritesOf(entries) ==
    IF entries = <<>> THEN <<>>
    ELSE LET e == Head(entries)
             w == IF e.isInt THEN << WriteOf(arg.offsets, e.addr, e.data) >>
                  ELSE IF gate_known(gate, e.cond) /\ gate[e.cond]
                  THEN [i \in 1..Len(e.sub) |->
                           WriteOf(arg.offsets, e.sub[i].addr, e.sub[i].data)]
                  ELSE <<>>
         IN  w \o WritesOf(Tail(entries))

\* the top-level entries handled so far, in enumeration and insertion order
RECURSIVE EntriesOfFiles(_)
EntriesOfFiles(paths) ==
    IF paths = <<>> THEN <<>>
    ELSE yaml_load(Head(paths)).entries \o EntriesOfFiles(Tail(paths))

Handled ==
    EntriesOfFiles(SubSeq(asm_patch_diff_paths, 1, fileIdx - 1))
        \o SubSeq(binary_diffs, 1, entryIdx - 1)

Applying == pc \in {"SegmentsDecompressed", "DiffsApplied", "Recompressed",
                    "HeadersRelocated", "Written"}

\* the decompressed contents of segment s of the input image
Original(s) == BlockDecode(compressed[s])

\* indices of the logged writes that cover position p (1-based) of segment s
Covering(s, p) ==
    { i \in 1..Len(writeLog) :
        /\ writeLog[i].seg = s
        /\ writeLog[i].off < p
        /\ p <= writeLog[i].off + Len(writeLog[i].data) }

MaxOf(set) == CHOOSE m \in set : \A x \in set : x <= m

Sorted(q) == \A i, j \in DOMAIN q : i < j => q[i] < q[j]

(***************************************************************************)
(* Properties of patch_asm and patch_all_asm.                              *)
(***************************************************************************)
\* C1: after patch_asm completes, the rodata file offset is at least its
\* input value plus growth(text), the data file offset at least its input
\* value plus growth(text) + growth(rodata), with equality when neither text
\* nor rodata shrank.
HeaderRelocation ==
    pc = "Written" =>
        /\ OutHdr["rodata"].file_offset >= InHdr["rodata"].file_offset + Growth("text")
        /\ OutHdr["data"].file_offset >=
               InHdr["data"].file_offset + Growth("text") + Growth("rodata")
        /\ (Growth("text") >= 0 /\ Growth("rodata") >= 0) =>
               /\ OutHdr["rodata"].file_offset =
                      InHdr["rodata"].file_offset + Growth("text")
               /\ OutHdr["data"].file_offset =
                      InHdr["data"].file_offset + Growth("text") + Growth("rodata")

\* text and rodata both grew in one completed run
BothGrew ==
    /\ pc = "Written"
    /\ Growth("text") > 0
    /\ Growth("rodata") > 0
    /\ OutHdr["data"].file_offset > InHdr["data"].file_offset + Growth("text")

\* C2: in every written image each compressed-size field equals the byte
\* length of the recompressed payload of its segment.
SizesExact ==
    Out.written =>
        \A s \in Segs : Out.image.csize[s] = Len(new_compressed[s])

\* an image was written in which one segment grew and another shrank
GrewAndShrank ==
    /\ Out.written
    /\ \E s \in Segs : Growth(s) > 0
    /\ \E s \in Segs : Growth(s) < 0

\* C3 (as claimed): once the diffs are applied every segment buffer still has
\* exactly the decompressed size of its header, and an entry whose range
\* leaves the segment never leads to a written image.
BuffersKeepSize ==
    /\ pc \in {"DiffsApplied", "Recompressed", "HeadersRelocated", "Written"} =>
           \A s \in Segs : Len(segment[s]) = InHdr[s].decompressed_size
    /\ Out.written =>
           \A i \in 1..Len(writeLog) :
               writeLog[i].off + Len(writeLog[i].data)
                   <= InHdr[writeLog[i].seg].decompressed_size

\* C4 (as claimed): when the capacity error is raised nothing was written:
\* not the start-flags diff file, not the secondary image, no output at all.
CapacityErrorWritesNothing ==
    capacityError =>
        /\ ~diffWritten
        /\ ~output["sub"].written
        /\ ~output["main"].written

\* C5: a conditional group queries the gate exactly once; a false answer
\* leaves every segment buffer as it was; a true answer writes every nested
\* entry as an unconditional entry would be written.
GroupStep ==
    /\ pc = "SegmentsDecompressed"
    /\ binary_diffs # <<>>
    /\ ~binary_diffs[entryIdx].isInt
    /\ gate_known(gate, binary_diffs[entryIdx].cond)

ConditionalGroups ==
    [][ GroupStep =>
          LET e == binary_diffs[entryIdx]
              ws == [i \in 1..Len(e.sub) |->
                        WriteOf(arg.offsets, e.sub[i].addr, e.sub[i].data)]
              last == ws[Len(ws)]
          IN  /\ queries' = Append(queries, e.cond)
              /\ ~gate[e.cond] => (segment' = segment /\ writeLog' = writeLog)
              /\ (gate[e.cond] /\ pc' # "Failed") =>
                     /\ writeLog' = writeLog \o ws
                     /\ SubSeq(segment'[last.seg], last.off + 1,
                               last.off + Len(last.data)) = last.data
      ]_vars

\* a group with two nested entries was applied
GroupApplied ==
    /\ pc = "DiffsApplied"
    /\ queries = << "cond_a" >>
    /\ gate["cond_a"]
    /\ Len(writeLog) >= 2

\* C6: entries are applied in source order and insertion order, and every
\* byte of a segment buffer is the one written by the last applied entry
\* that covers it, or the original byte when none does.
LastWriteWins ==
    Applying =>
        /\ writeLog = WritesOf(Handled)
        /\ \A s \in Segs : \A p \in 1..Len(segment[s]) :
               segment[s][p] =
                   IF Covering(s, p) # {}
                   THEN LET w == writeLog[MaxOf(Covering(s, p))]
                        IN  w.data[p - w.off]
                   ELSE IF p <= Len(Original(s)) THEN Original(s)[p]
                   ELSE 0

\* two sources wrote the same address and the later one's byte is there
LaterSourceWon ==
    /\ pc = "DiffsApplied"
    /\ Len(asm_patch_diff_paths) >= 2
    /\ \E s \in Segs : \E p \in 1..Len(segment[s]) :
           /\ Cardinality(Covering(s, p)) >= 2
           /\ p <= Len(Original(s))
           /\ segment[s][p] # Original(s)[p]

\* C7: write_patch writes an address of [text, rodata) into the text buffer
\* at address - text, one of [rodata, data) into the rodata buffer at
\* address - rodata, one >= data into the data buffer at address - data, and
\* leaves the other two buffers unchanged.
IntStep ==
    /\ pc = "SegmentsDecompressed"
    /\ binary_diffs # <<>>
    /\ binary_diffs[entryIdx].isInt
    /\ binary_diffs[entryIdx].addr >= arg.offsets.text

Target(T, a) ==
    IF T.text <= a /\ a < T.rodata THEN [seg |-> "text", off |-> a - T.text]
    ELSE IF T.rodata <= a /\ a < T.data THEN [seg |-> "rodata", off |-> a - T.rodata]
    ELSE [seg |-> "data", off |-> a - T.data]

Classification ==
    [][ IntStep =>
          LET e == binary_diffs[entryIdx]
              t == Target(arg.offsets, e.addr)
          IN  /\ SubSeq(segment'[t.seg], t.off + 1, t.off + Len(e.data)) = e.data
              /\ \A s \in Segs \ {t.seg} : segment'[s] = segment[s]
              /\ \A p \in 1..Len(segment[t.seg]) :
                     (p <= t.off \/ p > t.off + Len(e.data)) =>
                         segment'[t.seg][p] = segment[t.seg][p]
      ]_vars

\* one run wrote into each of the three buffers
AllSegmentsWritten ==
    /\ pc = "DiffsApplied"
    /\ { writeLog[i].seg : i \in 1..Len(writeLog) } = Segs

\* C8: an invocation moves through its steps in order without going back,
\* writes its output only in the final step, and writes nothing when a step
\* fails.
Rank(p) ==
    CASE p = "Start" -> 0
      [] p = "Globbed" -> 1
      [] p = "Loaded" -> 2
      [] p = "SegmentsDecompressed" -> 3
      [] p = "DiffsApplied" -> 4
      [] p = "Recompressed" -> 5
      [] p = "HeadersRelocated" -> 6
      [] p = "Written" -> 7
      [] p = "Failed" -> 8

LinearPipeline ==
    /\ [](Out.written => pc = "Written")
    /\ [][ /\ Rank(pc') >= Rank(pc)
           /\ (pc' # pc /\ pc' # "Failed") => Rank(pc') = Rank(pc) + 1
           /\ pc = "Failed" => pc' = "Failed"
           /\ pc = "Written" => pc' = "Written" ]_vars

\* an invocation failed on a condition error after it had applied writes
FailedMidway ==
    /\ pc = "Failed"
    /\ Len(writeLog) > 0
    /\ queries # <<>>
    /\ ~Out.written

\* C9: the temporary directory exists only after the main pipeline has
\* completed, holds the start-flags diff when the secondary pipeline
\* enumerates its sources, and is gone on every exit path.
TempDirScoped ==
    /\ temp_dir.exists => (output["main"].written /\ apc \notin {"Start", "Main"})
    /\ (apc = "Sub" /\ pc # "Start") =>
           /\ temp_dir.exists
           /\ asm_patch_diff_paths # <<>>
           /\ asm_patch_diff_paths[Len(asm_patch_diff_paths)] = StartflagsFile
    /\ apc \in {"Done", "Failed"} => ~temp_dir.exists

\* the secondary patch_asm failed and the directory is gone
SecondaryFailedCleaned ==
    /\ apc = "Failed"
    /\ arg.out = "sub"
    /\ pc = "Failed"
    /\ diffWritten
    /\ ~temp_dir.exists

\* C10 (as claimed): the sources are enumerated in file-name order, primary
\* directory first, so the order of application does not depend on the
\* directory listing.
FileNameOrder ==
    pc # "Start" =>
        \E p \in Listings(DirFiles(arg.diffs)) :
            /\ Sorted(p)
            /\ SubSeq(asm_patch_diff_paths, 1, Len(p)) = p
            /\ Sorted(SubSeq(asm_patch_diff_paths, Len(p) + 1, Len(asm_patch_diff_paths)))

\* C11 (as claimed): a segment that shrank keeps its recorded size and the
\* recorded file offsets and 'other' field are as in the input image; no
\* recorded value is ever decreased.
ShrinkageNeverApplied ==
    pc = "Written" =>
        /\ \A s \in Segs :
               Growth(s) < 0 => Out.image.csize[s] = arg.image.csize[s]
        /\ \A s \in Segs :
               /\ Out.image.csize[s] >= arg.image.csize[s]
               /\ OutHdr[s].file_offset >= InHdr[s].file_offset
               /\ OutHdr[s].other >= InHdr[s].other
        /\ Growth("text") < 0 =>
               OutHdr["rodata"].file_offset = InHdr["rodata"].file_offset
        /\ (Growth("text") <= 0 /\ Growth("rodata") < 0) =>
               OutHdr["data"].file_offset = InHdr["data"].file_offset
        /\ Growth("data") < 0 => OutHdr["data"].other = InHdr["data"].other

\* C11 (amended): shrinkage is never applied to the segment headers: a text
\* shrink moves neither the rodata nor the data file offset, a rodata shrink
\* does not move the data file offset, a data shrink leaves 'other', and no
\* file offset or 'other' field is ever decreased; only the compressed-size
\* field of a segment that shrank is lowered, to the new length.
ShrinkageNotInHeaders ==
    pc = "Written" =>
        /\ \A s \in Segs :
               /\ OutHdr[s].file_offset >= InHdr[s].file_offset
               /\ OutHdr[s].other >= InHdr[s].other
               /\ OutHdr[s].decompressed_size = InHdr[s].decompressed_size
        /\ Growth("text") <= 0 =>
               OutHdr["rodata"].file_offset = InHdr["rodata"].file_offset
        /\ (Growth("text") <= 0 /\ Growth("rodata") <= 0) =>
               OutHdr["data"].file_offset = InHdr["data"].file_offset
        /\ (Growth("text") > 0 /\ Growth("rodata") <= 0) =>
               OutHdr["data"].file_offset = InHdr["data"].file_offset + Growth("text")
        /\ Growth("data") <= 0 => OutHdr["data"].other = InHdr["data"].other
        /\ \A s \in Segs :
               Growth(s) < 0 => Out.image.csize[s] < arg.image.csize[s]

\* text grew, rodata and data shrank, in one completed run
GrewThenShrank ==
    /\ pc = "Written"
    /\ Growth("text") > 0
    /\ Growth("rodata") < 0
    /\ Growth("data") < 0
    /\ OutHdr["data"].file_offset = InHdr["data"].file_offset + Growth("text")

\* the flags a section emits under the gate, conditional entries in place
RECURSIVE Emitted(_)
Emitted(section) ==
    IF section = <<>> THEN <<>>
    ELSE LET f == section[Len(section)]
             before == Emitted(SubSeq(section, 1, Len(section) - 1))
         IN  IF f.isInt THEN Append(before, f.flag)
             ELSE IF gate[f.cond] THEN before \o f.flags
             ELSE before

\* the (scene_index, flag) pairs a scene-indexed section emits
RECURSIVE EmittedPairs(_)
EmittedPairs(scenes) ==
    IF scenes = <<>> THEN <<>>
    ELSE LET fs == Emitted(Head(scenes).flags)
         IN  [i \in 1..Len(fs) |->
                 [scene_index |-> SCENE_NAME_TO_SCENE_INDEX[Head(scenes).scene],
                  flag |-> fs[i]]]
             \o EmittedPairs(Tail(scenes))

\* bytes base+1.. of blob hold the flags fs as little-endian u16
HoldsU16(blob, base, fs) ==
    \A i \in 1..Len(fs) :
        /\ blob[base + 2 * i - 1] = fs[i] % 256
        /\ blob[base + 2 * i] = fs[i] \div 256

\* bytes base+1.. of blob hold the pairs ps as (scene_index, flag)
HoldsPairs(blob, base, ps) ==
    \A i \in 1..Len(ps) :
        /\ blob[base + 2 * i - 1] = ps[i].scene_index
        /\ blob[base + 2 * i] = ps[i].flag

\* bytes base+1 .. base+n of blob are 0xFF
HoldsSentinel(blob, base, n) == \A i \in 1..n : blob[base + i] = 255

\* C12: the flag blob is story flags (u16), 0xFFFF, scene pairs, 0xFFFF,
\* item flags (u16), 0xFFFF, dungeon pairs, 0xFFFF, so its length is
\* 2 * (emitted flags) + 8 and a conditional entry contributes in place iff
\* the gate holds; the counters go to a second blob of (id u16, amount u16)
\* pairs closed by 0xFFFFFFFF.
SerializationOrder ==
    diffWritten =>
        LET loop == ItemLoop(world, StartflagsYaml.Itemflags, StartflagsYaml.Storyflags, <<>>)
            st == Emitted(loop.storyflags)
            sc == EmittedPairs(StartflagsYaml.Sceneflags)
            it == Emitted(loop.itemflags)
            du == EmittedPairs(StartflagsYaml.Dungeonflags)
            blob == temp_file.entries[1].data
            cblob == temp_file.entries[2].data
            b1 == 2 * Len(st)
            b2 == b1 + 2 + 2 * Len(sc)
            b3 == b2 + 2 + 2 * Len(it)
            b4 == b3 + 2 + 2 * Len(du)
        IN  /\ Len(temp_file.entries) = 2
            /\ temp_file.entries[1].addr = SUBSDK_STARTFLAG_OFFSET
            /\ temp_file.entries[2].addr = SUBSDK_START_COUNTS_OFFSET
            /\ Len(blob) = 2 * (Len(st) + Len(sc) + Len(it) + Len(du)) + 8
            /\ HoldsU16(blob, 0, st)
            /\ HoldsSentinel(blob, b1, 2)
            /\ HoldsPairs(blob, b1 + 2, sc)
            /\ HoldsSentinel(blob, b2, 2)
            /\ HoldsU16(blob, b2 + 2, it)
            /\ HoldsSentinel(blob, b3, 2)
            /\ HoldsPairs(blob, b3 + 2, du)
            /\ HoldsSentinel(blob, b4, 2)
            /\ Len(cblob) = 4 * Len(loop.counts) + 4
            /\ \A i \in 1..Len(loop.counts) :
                   /\ cblob[4 * i - 3] = loop.counts[i].counter % 256
                   /\ cblob[4 * i - 2] = loop.counts[i].counter \div 256
                   /\ cblob[4 * i - 1] = loop.counts[i].amount % 256
                   /\ cblob[4 * i] = loop.counts[i].amount \div 256
            /\ HoldsSentinel(cblob, 4 * Len(loop.counts), 4)

\* a blob was written with a conditional entry included, inventory flags
\* appended and a counter pair
BlobWithConditionals ==
    /\ diffWritten
    /\ gate["cond_a"]
    /\ world # <<>>
    /\ Len(temp_file.entries[1].data) > 22
    /\ Len(temp_file.entries[2].data) = 8

\* what the pool appends to a flag section: per item, in pool order, the
\* single flag, every entry of a tuple, or the first `count` entries of a list
RECURSIVE Appended(_, _)
Appended(table, pool) ==
    IF pool = <<>> THEN <<>>
    ELSE LET it == Head(pool)
             val == Get(table, it.name)
             own == IF val.kind = "list" THEN SubSeq(val.v, 1, Min(it.count, Len(val.v)))
                    ELSE val.v
         IN  own \o Appended(table, Tail(pool))

\* patch_startflags has run with the main image written before it
AssemblerRan ==
    /\ output["main"].written
    /\ apc \notin {"Start", "Main", "TempDir"}

\* C13 (as claimed): for every pool, counts above a list's length included,
\* the item-flag and story-flag sections hold the static flags followed by
\* what each held item appends.
ItemContributions ==
    AssemblerRan =>
        /\ diffWritten
        /\ LET st == Emitted(StartflagsYaml.Storyflags) \o Appended(ITEM_STORYFLAGS, world)
               it == Emitted(StartflagsYaml.Itemflags) \o Appended(ITEM_ITEMFLAGS, world)
               sc == EmittedPairs(StartflagsYaml.Sceneflags)
               blob == temp_file.entries[1].data
           IN  /\ HoldsU16(blob, 0, st)
               /\ HoldsSentinel(blob, 2 * Len(st), 2)
               /\ HoldsU16(blob, 2 * Len(st) + 2 + 2 * Len(sc) + 2, it)
               /\ HoldsSentinel(blob, 2 * Len(st) + 2 + 2 * Len(sc) + 2 + 2 * Len(it), 2)

Positive(n) == IF n > 0 THEN n ELSE 0

\* C14: when the data segment grew its 'other' field is raised by exactly
\* that growth and by nothing else: text and rodata growth never change an
\* 'other' field, and data growth never changes a file-offset field.
OtherFollowsData ==
    pc = "Written" =>
        /\ OutHdr["data"].other = InHdr["data"].other + Positive(Growth("data"))
        /\ OutHdr["text"].other = InHdr["text"].other
        /\ OutHdr["rodata"].other = InHdr["rodata"].other
        /\ OutHdr["text"].file_offset = InHdr["text"].file_offset
        /\ OutHdr["rodata"].file_offset - InHdr["rodata"].file_offset
               = Positive(Growth("text"))
        /\ OutHdr["data"].file_offset - InHdr["data"].file_offset
               = Positive(Growth("text")) + Positive(Growth("rodata"))

\* all three segments grew in one completed run
AllGrew ==
    /\ pc = "Written"
    /\ \A s \in Segs : Growth(s) > 0
    /\ OutHdr["data"].other > InHdr["data"].other

\* bits 3..5 of the flags byte ask for the segment hashes to be checked
HashBits(f) == (f \div 8) % 8
ClearHash(f) == f - 8 * HashBits(f)

\* C15 (as claimed): every written image has the hash-verification bits
\* cleared and the other bits of the flags byte as in the input image.
HashBitsClearedOnly ==
    Out.written => Out.image.flags = ClearHash(arg.image.flags)

\* C15 (amended): every written image has the flags byte 0x07, whatever the
\* input byte was: hash-verification bits cleared, the three compression
\* bits set, bits 6 and 7 cleared; the other bits are as in the input
\* exactly when the input had bits 0..2 set and bits 6..7 clear.
FlagsByteSeven ==
    Out.written =>
        /\ Out.image.flags = 7
        /\ HashBits(Out.image.flags) = 0
        /\ (Out.image.flags = ClearHash(arg.image.flags))
               <=> (arg.image.flags % 8 = 7 /\ arg.image.flags < 64)

\* an image with all hash bits set was written
HashBitsWereSet ==
    /\ Out.written
    /\ HashBits(arg.image.flags) = 7
    /\ arg.image.flags % 8 = 7

\* the bytes of the written image at the recorded place of segment s
PayloadAt(s) ==
    read_at(Out.image.body, OutHdr[s].file_offset - BodyBase, Len(new_compressed[s]))

\* C16: in the written image the three recompressed payloads do not overlap:
\* the text payload ends at or before the rodata file offset, the rodata
\* payload at or before the data file offset, the order of the three file
\* offsets is kept, and each payload is intact where its header points.
PayloadsDisjoint ==
    pc = "Written" =>
        /\ OutHdr["text"].file_offset + Len(new_compressed["text"])
               <= OutHdr["rodata"].file_offset
        /\ OutHdr["rodata"].file_offset + Len(new_compressed["rodata"])
               <= OutHdr["data"].file_offset
        /\ OutHdr["text"].file_offset < OutHdr["rodata"].file_offset
        /\ OutHdr["rodata"].file_offset < OutHdr["data"].file_offset
        /\ \A s \in Segs : PayloadAt(s) = new_compressed[s]

\* text grew, rodata shrank and data grew in one completed run
MixedGrowth ==
    /\ pc = "Written"
    /\ Growth("text") > 0
    /\ Growth("rodata") < 0
    /\ Growth("data") > 0
    /\ OutHdr["rodata"].file_offset + Len(new_compressed["rodata"])
           < OutHdr["data"].file_offset

====
